---- MODULE Spec2Model ----
(***************************************************************************)
(* Model of the processing core of PetrosianRadiiFinderv7.py: the          *)
(* Petrosian radius calculator (petrosian_radius), the per-record isophote *)
(* fit loop and Petrosian search loop of __main__ (PROCESSING), and the    *)
(* final success-rate report.                                              *)
(*                                                                         *)
(* Real numbers of the program (radii, intensities, ellipticities, the     *)
(* sensitivity) are written as exact rationals <<n, d>> with d > 0 in      *)
(* lowest terms.  The program computes in IEEE doubles: the calculator     *)
(* takes the double nearest to each input, and every operation of it, the  *)
(* increase of localEps and the success rate are modelled as the double    *)
(* operations, in the order of the code.                                   *)
(* The isophote fitter (photutils) is external: a call returns any member  *)
(* of FitResults.                                                          *)
(***************************************************************************)
EXTENDS Integers, Sequences, FiniteSets

\* ------------------------------------------------------------------------
\* Rational arithmetic: the values the program's floats are written as, and
\* the exact values the claims speak of

Abs(n) == IF n < 0 THEN -n ELSE n

RECURSIVE GCD(_, _)
GCD(a, b) == IF b = 0 THEN a ELSE GCD(b, a % b)

Norm(n, d) ==
    LET s == IF d < 0 THEN -1 ELSE 1
        g == GCD(Abs(n), Abs(d))
    IN  IF n = 0 THEN <<0, 1>> ELSE <<(s * n) \div g, (s * d) \div g>>

R(k) == <<k, 1>>
RAdd(x, y) == Norm(x[1] * y[2] + y[1] * x[2], x[2] * y[2])
RMul(x, y) == Norm(x[1] * y[1], x[2] * y[2])
RLt(x, y) == x[1] * y[2] < y[1] * x[2]
RIsZero(x) == x[1] = 0

\* Python slice s[:i] of a sequence
Prefix(s, i) == SubSeq(s, 1, IF i < Len(s) THEN i ELSE Len(s))

\* s[-1]
Last(s) == s[Len(s)]

\* ------------------------------------------------------------------------
\* Constants of petrosian_radius

adda == <<1, 5>>    \* Target constant 0.2

\* ------------------------------------------------------------------------
\* Policy values of __main__

petroSens == <<1, 10>>          \* 0.1
extentOfDetect == 100           \* % past max sma of isophotes
tryIsoIncrease == 18            \* % increase when attempting new fit
tryLimDefault == 50             \* tryLim: number of tries
tryEpsIncreaseCoarse == <<1, 50>>  \* a step of 0.02
tryEpsIncrease == <<39, 2000>>  \* 0.0195
initialEps == <<1, 100>>        \* localEps = 0.01

\* ------------------------------------------------------------------------
\* Bounds of the model

MaxRecs == 3        \* records in the batch
MaxTryLim == 3      \* tryLim is drawn from 1..MaxTryLim
MaxLen == 4         \* longest isophote sequence handed to the calculator

\* ------------------------------------------------------------------------
\* Inputs of the direct calls of the calculator

RadVals == {R(0), R(1), R(2), R(3), R(4)}
SBVals == {R(0), <<1, 4>>, R(2), R(3)}
EpsVals == {R(0), <<1, 2>>}
SensVals == {<<1, 100>>, petroSens, <<1, 2>>}

\* radii of an isophote sequence: strictly increasing, non-negative
RadSeqs(n) == {s \in [1..n -> RadVals] : \A k \in 1..(n - 1) : RLt(s[k], s[k + 1])}

\* ------------------------------------------------------------------------
\* isophote_fit_image_aper: what a call may return
\* (isolist.sma, isolist.intens, isolist.int_err, ellipticity column, isolist)

FitEmpty ==
    [sma |-> <<>>, intens |-> <<>>, int_err |-> <<>>, ellipticity |-> <<>>,
     isolist |-> "isoEmpty"]
FitA ==
    [sma |-> <<R(1), R(2), R(3)>>, intens |-> <<R(0), R(1), R(1)>>,
     int_err |-> <<<<1, 10>>, <<1, 10>>, <<1, 10>>>>,
     ellipticity |-> <<R(0), R(0), R(0)>>, isolist |-> "isoA"]
FitB ==
    [sma |-> <<R(0), R(1), R(2), R(3)>>, intens |-> <<R(0), R(0), R(1), R(1)>>,
     int_err |-> <<<<1, 4>>, <<1, 4>>, <<1, 4>>, <<1, 4>>>>,
     ellipticity |-> <<R(0), <<1, 2>>, R(0), R(0)>>, isolist |-> "isoB"]
FitC ==
    [sma |-> <<R(1), R(2), R(4)>>, intens |-> <<R(6), R(6), R(1)>>,
     int_err |-> <<<<1, 2>>, <<1, 2>>, <<1, 2>>>>,
     ellipticity |-> <<R(0), R(0), R(0)>>, isolist |-> "isoC"]

\* an empty fit, two fits with a Petrosian radius (at index 2, at index 3)
\* and one without
FitResults == {FitEmpty, FitA, FitB, FitC}

\* ------------------------------------------------------------------------
\* IEEE double arithmetic (Python float, numpy float64), round to nearest,
\* ties to even.  A double is <<s, m, e>>: the value s * m * 2^e with s the
\* sign (0 for zero) and m the 53-bit significand; m, which TLC's integers
\* cannot hold, is a sequence of limbs in base LimbBase, least limb first.
\* inf and nan are <<s, <<>>, 1>> with s the sign of inf and 0 for nan: only the
\* division by a zero area produces them, and FNeg, FAbs, FAdd, FSub and FLt,
\* the operations applied to that quotient, take them.  The magnitudes reached
\* from inputs written with TLC's integers neither overflow nor become
\* subnormal.

LimbBits == 14
LimbBase == 2^LimbBits
MantBits == 53          \* bits of a double's significand

Limb(a, k) == IF k <= Len(a) THEN a[k] ELSE 0

RECURSIVE BTrim(_)
BTrim(a) ==
    IF a = <<>> THEN a
    ELSE IF a[Len(a)] = 0 THEN BTrim(SubSeq(a, 1, Len(a) - 1))
    ELSE a

RECURSIVE BFromInt(_)
BFromInt(n) == IF n = 0 THEN <<>> ELSE <<n % LimbBase>> \o BFromInt(n \div LimbBase)

RECURSIVE BAddC(_, _, _, _)
BAddC(a, b, k, c) ==
    IF k > Len(a) /\ k > Len(b) THEN (IF c = 0 THEN <<>> ELSE <<c>>)
    ELSE LET s == Limb(a, k) + Limb(b, k) + c
         IN  <<s % LimbBase>> \o BAddC(a, b, k + 1, s \div LimbBase)

BAdd(a, b) == BAddC(a, b, 1, 0)

\* a - b for a >= b
RECURSIVE BSubC(_, _, _, _)
BSubC(a, b, k, c) ==
    IF k > Len(a) THEN <<>>
    ELSE LET d == a[k] - Limb(b, k) - c
         IN  IF d < 0 THEN <<d + LimbBase>> \o BSubC(a, b, k + 1, 1)
             ELSE <<d>> \o BSubC(a, b, k + 1, 0)

BSub(a, b) == BTrim(BSubC(a, b, 1, 0))

RECURSIVE BCmpAt(_, _, _)
BCmpAt(a, b, k) ==
    IF k = 0 THEN 0
    ELSE IF a[k] < b[k] THEN -1
    ELSE IF a[k] > b[k] THEN 1
    ELSE BCmpAt(a, b, k - 1)

\* -1, 0, 1 as a < b, a = b, a > b
BCmp(a, b) ==
    IF Len(a) < Len(b) THEN -1
    ELSE IF Len(a) > Len(b) THEN 1
    ELSE BCmpAt(a, b, Len(a))

\* a * m for 0 <= m < LimbBase
RECURSIVE BMulSmallC(_, _, _, _)
BMulSmallC(a, m, k, c) ==
    IF k > Len(a) THEN (IF c = 0 THEN <<>> ELSE <<c>>)
    ELSE LET p == a[k] * m + c
         IN  <<p % LimbBase>> \o BMulSmallC(a, m, k + 1, p \div LimbBase)

BMulSmall(a, m) == BTrim(BMulSmallC(a, m, 1, 0))

\* the sum of the a[k + 1 - j] * b[j] from j on: the limb products of weight
\* LimbBase^(k - 1)
RECURSIVE BMulColumn(_, _, _, _)
BMulColumn(a, b, k, j) ==
    IF j > Len(b) \/ j > k THEN 0
    ELSE Limb(a, k + 1 - j) * b[j] + BMulColumn(a, b, k, j + 1)

RECURSIVE BMulC(_, _, _, _)
BMulC(a, b, k, c) ==
    IF k > Len(a) + Len(b) THEN <<>>
    ELSE LET t == BMulColumn(a, b, k, 1) + c
         IN  <<t % LimbBase>> \o BMulC(a, b, k + 1, t \div LimbBase)

\* a * b for b of at most a significand's limbs
BMul(a, b) == BTrim(BMulC(a, b, 1, 0))

\* a * 2^k
BShl(a, k) ==
    IF a = <<>> THEN a
    ELSE [j \in 1..(k \div LimbBits) |-> 0] \o BMulSmall(a, 2^(k % LimbBits))

\* a \div 2^k
BShr(a, k) ==
    LET q == k \div LimbBits
        p == 2^(k % LimbBits)
        n == Len(a) - q
    IN  IF n <= 0 THEN <<>>
        ELSE BTrim([j \in 1..n |->
                      (a[q + j] \div p) + (Limb(a, q + j + 1) % p) * (LimbBase \div p)])

RECURSIVE BitLen(_)
BitLen(n) == IF n = 0 THEN 0 ELSE 1 + BitLen(n \div 2)

BBitLen(a) == IF a = <<>> THEN 0 ELSE (Len(a) - 1) * LimbBits + BitLen(a[Len(a)])

BOdd(a) == a # <<>> /\ a[1] % 2 = 1

\* bit j of a, bit 0 the lowest
BBit(a, j) == (Limb(a, j \div LimbBits + 1) \div 2^(j % LimbBits)) % 2

\* the bits of a below bit j are all 0
BLowZero(a, j) ==
    /\ \A t \in 1..(j \div LimbBits) : Limb(a, t) = 0
    /\ Limb(a, j \div LimbBits + 1) % 2^(j % LimbBits) = 0

\* -1, 0, 1 as the k lowest bits of n are below, at, above 2^(k - 1)
BHalf(n, k) ==
    IF BBit(n, k - 1) = 0 THEN -1
    ELSE IF BLowZero(n, k - 1) THEN 0
    ELSE 1

FZero == <<0, <<>>, 0>>

\* s * q * 2^e for q of at most MantBits + 1 bits
FPack(s, q, e) ==
    IF BBitLen(q) > MantBits THEN <<s, BShr(q, 1), e + 1>> ELSE <<s, q, e>>

\* round to nearest, ties to even: half is -1, 0, 1 as the bits cut off
\* below q are below, at, above one half
RoundsUp(half, q, sticky) == half > 0 \/ (half = 0 /\ (sticky \/ BOdd(q)))

\* n cut by its k lowest bits to q, rounded
FRoundCut(s, n, e, sticky, k, q) ==
    FPack(s,
          IF RoundsUp(BHalf(n, k), q, sticky)
          THEN BAdd(q, <<1>>) ELSE q,
          e + k)

\* n has MantBits + k bits
FRoundBits(s, n, e, sticky, k) ==
    IF k <= 0 THEN <<s, BShl(n, -k), e + k>>
    ELSE FRoundCut(s, n, e, sticky, k, BShr(n, k))

\* the double nearest to s * n * 2^e, or to a value just above it when sticky
FRound(s, n, e, sticky) ==
    IF n = <<>> THEN FZero ELSE FRoundBits(s, n, e, sticky, BBitLen(n) - MantBits)

FNaN == <<0, <<>>, 1>>
FInf(s) == <<s, <<>>, 1>>

\* x is neither inf nor nan
FFinite(x) == ~(x[2] = <<>> /\ x[3] = 1)

FNeg(x) == <<-x[1], x[2], x[3]>>
FAbs(x) == <<x[1] * x[1], x[2], x[3]>>

FMul(x, y) ==
    IF x[1] = 0 \/ y[1] = 0 THEN FZero
    ELSE FRound(x[1] * y[1], BMul(x[2], y[2]), x[3] + y[3], FALSE)

\* hi + lo for hi's significand a taken at lo's exponent; c compares a with
\* lo's significand
FAddAligned(hi, lo, a, c) ==
    FRound(IF hi[1] = lo[1] \/ c > 0 THEN hi[1] ELSE lo[1],
           IF hi[1] = lo[1] THEN BAdd(a, lo[2])
           ELSE IF c > 0 THEN BSub(a, lo[2])
           ELSE BSub(lo[2], a),
           lo[3], FALSE)

FAddShifted(hi, lo, a) == FAddAligned(hi, lo, a, BCmp(a, lo[2]))

\* hi + lo for hi[3] >= lo[3]; an addend more than two significands below
\* the other is absorbed
FAddOrdered(hi, lo) ==
    IF hi[3] - lo[3] > 2 * MantBits THEN hi
    ELSE FAddShifted(hi, lo, BShl(hi[2], hi[3] - lo[3]))

FAdd(x, y) ==
    IF ~FFinite(x) THEN (IF ~FFinite(y) /\ y # x THEN FNaN ELSE x)
    ELSE IF ~FFinite(y) THEN y
    ELSE IF x[1] = 0 THEN y
    ELSE IF y[1] = 0 THEN x
    ELSE FAddOrdered(IF x[3] >= y[3] THEN x ELSE y, IF x[3] >= y[3] THEN y ELSE x)

FSub(x, y) == FAdd(x, FNeg(y))

\* x < y for finite x, y of one sign s # 0
FLtSigned(x, y, s) ==
    \/ s * x[3] < s * y[3]
    \/ x[3] = y[3] /\ s * BCmp(x[2], y[2]) < 0

\* the sign of an infinity, 0 for a finite value
FInfSign(x) == IF FFinite(x) THEN 0 ELSE x[1]

\* x < y; false when either is nan
FLt(x, y) ==
    IF x = FNaN \/ y = FNaN THEN FALSE
    ELSE IF ~FFinite(x) \/ ~FFinite(y) THEN FInfSign(x) < FInfSign(y)
    ELSE IF x[1] # y[1] THEN x[1] < y[1]
    ELSE x[1] # 0 /\ FLtSigned(x, y, x[1])

\* bits by which a significand falls short of QuotLimbs whole limbs
QuotLimbs == (MantBits + LimbBits) \div LimbBits
DivShift == QuotLimbs * LimbBits - MantBits

\* the largest d <= est with den * d <= rm
RECURSIVE DivDigit(_, _, _)
DivDigit(rm, den, est) ==
    IF BCmp(BMulSmall(den, est), rm) <= 0 THEN est ELSE DivDigit(rm, den, est - 1)

\* the quotient of the two leading limbs of rm by the leading limb of den: at
\* least the digit rm \div den, and at most 2 above it as den's leading limb
\* is at least LimbBase \div 2
DivCap(est) == IF est < LimbBase THEN est ELSE LimbBase - 1

DivEstimate(rm, den) ==
    DivCap((Limb(rm, QuotLimbs + 1) * LimbBase + Limb(rm, QuotLimbs)) \div den[QuotLimbs])

\* n more limbs of the quotient rm / den for rm < den: <<quotient, remainder>>
RECURSIVE DivLimbs(_, _, _, _)

\* the limb d is the next one of the quotient of r, a limb to the left of rm
DivStep(r, den, q, n, d) ==
    DivLimbs(BSub(r, BMulSmall(den, d)), den, <<d>> \o q, n - 1)

DivNext(r, den, q, n) == DivStep(r, den, q, n, DivDigit(r, den, DivEstimate(r, den)))

DivLimbs(rm, den, q, n) ==
    IF n = 0 THEN <<BTrim(q), rm>>
    ELSE DivNext(IF rm = <<>> THEN rm ELSE <<0>> \o rm, den, q, n)

\* x / y from the quotient and remainder qr of the significands
FDivRound(x, y, qr) ==
    FRound(x[1] * y[1], qr[1], x[3] - y[3] - QuotLimbs * LimbBits, qr[2] # <<>>)

\* ge: x's significand is not below y's, the quotient's leading bit is 1; the
\* significands are taken times 2^DivShift, which fills den's leading limb
FDivFrom(x, y, ge) ==
    FDivRound(x, y, DivLimbs(BShl(IF ge THEN BSub(x[2], y[2]) ELSE x[2], DivShift),
                             BShl(y[2], DivShift),
                             IF ge THEN <<1>> ELSE <<>>, QuotLimbs))

\* x / y for y # 0
FDiv(x, y) ==
    IF x[1] = 0 THEN FZero ELSE FDivFrom(x, y, BCmp(x[2], y[2]) >= 0)

\* float(n) of an integer n
FInt(n) == FRound(IF n < 0 THEN -1 ELSE 1, BFromInt(Abs(n)), 0, FALSE)

\* the double of a decimal literal or input written as x: x itself when its
\* denominator is a power of two, the nearest double otherwise
Nearest(x) ==
    IF 2^(BitLen(x[2]) - 1) = x[2]
    THEN FRound(IF x[1] < 0 THEN -1 ELSE 1, BFromInt(Abs(x[1])), 1 - BitLen(x[2]), FALSE)
    ELSE FDiv(FInt(x[1]), FInt(x[2]))

\* Nearest on the values of the model, computed once
KnownVals == SensVals \cup EpsVals \cup SBVals \cup RadVals \cup {adda}
KnownDoubles == [x \in KnownVals |-> Nearest(x)]

FromR(x) == IF x \in KnownVals THEN KnownDoubles[x] ELSE Nearest(x)

\* x ** 3 (pow), taken as the double nearest to the exact cube
FCube(x) ==
    IF x[1] = 0 THEN FZero
    ELSE FRound(x[1], BMul(BMul(x[2], x[2]), x[2]), 3 * x[3], FALSE)

\* the float constants of simpson and petrosian_radius
FOne == FInt(1)
FTwo == FInt(2)
FThree == FInt(3)
FSix == FInt(6)
FHalf == Nearest(<<1, 2>>)

\* np.pi = 3.141592653589793
FPi == <<1, <<11544, 4368, 8117, 1608>>, -51>>

\* a Python list or numpy array of doubles
FSeq(s) == [k \in 1..Len(s) |-> FromR(s[k])]

\* np.true_divide(x, y, out=zeros, where=y != 0): 0 where the divisor is 0
FDivWhere(x, y) == IF y[1] = 0 THEN FZero ELSE FDiv(x, y)

\* x / y of numpy doubles for finite x and y: inf or nan for y = 0
FQuot(x, y) ==
    IF y[1] # 0 THEN FDiv(x, y)
    ELSE IF x[1] = 0 THEN FNaN
    ELSE FInf(x[1])

\* localEps = 0.01 and tryEpsIncrease = 0.0195 as doubles
EpsStart == Nearest(initialEps)
EpsStep == Nearest(tryEpsIncrease)

\* ------------------------------------------------------------------------
\* scipy.integrate.simpson(y, x) in doubles, operation by operation

\* tmp = hsum/6.0 * (y0 * (2.0 - 1.0/h0divh1) + y1 * (hsum * hsum/hprod)
\*                   + y2 * (2.0 - h0divh1))
SegmentValue(y, k, hsum, hprod, h0divh1) ==
    FMul(FDiv(hsum, FSix),
         FAdd(FAdd(FMul(y[k], FSub(FTwo, FDivWhere(FOne, h0divh1))),
                   FMul(y[k + 1], FMul(hsum, FDivWhere(hsum, hprod)))),
              FMul(y[k + 2], FSub(FTwo, h0divh1))))

\* hsum = h0 + h1; hprod = h0 * h1; h0divh1 = h0 / h1
SegmentSteps(y, k, h0, h1) ==
    SegmentValue(y, k, FAdd(h0, h1), FMul(h0, h1), FDivWhere(h0, h1))

SimpsonSegment(y, x, k) ==
    SegmentSteps(y, k, FSub(x[k + 1], x[k]), FSub(x[k + 2], x[k + 1]))

\* np.sum of the segments, first to last
RECURSIVE BasicSimpson(_, _, _, _, _)
BasicSimpson(y, x, k, n, acc) ==
    IF k + 2 > n THEN acc
    ELSE BasicSimpson(y, x, k + 2, n, FAdd(acc, SimpsonSegment(y, x, k)))

\* alpha*y[-1] + beta*y[-2] - eta*y[-3] for the last two spacings h0, h1
LastValue(y, n, h0, h1) ==
    LET alpha == FDivWhere(FAdd(FMul(FTwo, FMul(h1, h1)), FMul(FMul(FThree, h0), h1)),
                           FMul(FSix, FAdd(h1, h0)))
        beta == FDivWhere(FAdd(FMul(h1, h1), FMul(FMul(FThree, h0), h1)),
                          FMul(FSix, h0))
        eta == FDivWhere(FMul(FOne, FCube(h1)),
                         FMul(FMul(FSix, h0), FAdd(h0, h1)))
    IN  FSub(FAdd(FMul(alpha, y[n]), FMul(beta, y[n - 1])), FMul(eta, y[n - 2]))

SimpsonLast(y, x) ==
    LastValue(y, Len(x), FSub(x[Len(x) - 1], x[Len(x) - 2]),
               FSub(x[Len(x)], x[Len(x) - 1]))

\* result += alpha*y[-1] + beta*y[-2] - eta*y[-3] when the number of points
\* is even
SimpsonEven(y, x, result) ==
    IF Len(x) % 2 = 1 THEN result ELSE FAdd(result, SimpsonLast(y, x))

simpson(y, x) ==
    IF Len(x) < 2 THEN FZero
    ELSE IF Len(x) = 2
         THEN FMul(FMul(FHalf, FSub(x[2], x[1])), FAdd(y[2], y[1]))
    ELSE SimpsonEven(y, x, BasicSimpson(y, x, 1, Len(x) - ((Len(x) + 1) % 2), FZero))

\* ------------------------------------------------------------------------
\* petrosian_radius(radius, SB, eps, sens); i is the Python (0-based) index,
\* s[i + 1] the TLA+ element

\* b = a[-1] - (eps_i[-1] * a[-1])
SemiMinor(a, e) == FSub(a, FMul(e, a))

\* SBtoR = simpson(y=SB_i, x=a) * 2 * np.pi
SBtoR(SB_i, a) == FMul(FMul(simpson(FSeq(SB_i), FSeq(a)), FTwo), FPi)

\* area = np.pi * a[-1] * b
EllipseArea(a, e) == FMul(FMul(FPi, a), SemiMinor(a, e))

\* integratedSB = SBtoR / area for k = <<SB_i, a, eps_i[-1]>>
SliceMean(k) ==
    FQuot(SBtoR(k[1], k[2]), EllipseArea(FromR(Last(k[2])), FromR(k[3])))

\* the slices and local intensities met by the calls of the model
SliceKeys ==
    UNION {{<<sb, r, e>> : sb \in [1..n -> SBVals], r \in RadSeqs(n), e \in EpsVals} :
           n \in 2..(MaxLen - 1)}
    \cup {<<SubSeq(p[1].intens, 1, p[2]), SubSeq(p[1].sma, 1, p[2]), e>> :
          p \in {q \in FitResults \X (2..MaxLen) : q[2] < Len(q[1].sma)},
          e \in EpsVals}
LocalVals == SBVals \cup UNION {{f.intens[n] : n \in 1..Len(f.intens)} : f \in FitResults}

\* SliceMean on those slices, computed once
KnownMeans == [k \in SliceKeys |-> SliceMean(k)]

MeanOf(k) == IF k \in SliceKeys THEN KnownMeans[k] ELSE SliceMean(k)

\* abs(integratedSB - (adda*localSB))
MeanDeviation(mean, localSB) == FAbs(FSub(mean, FMul(FromR(adda), FromR(localSB))))

\* MeanDeviation on those slices and intensities, computed once
KnownDeviations ==
    [k \in SliceKeys |-> [v \in LocalVals |-> MeanDeviation(KnownMeans[k], v)]]

DeviationOf(k, localSB) ==
    IF k \in SliceKeys /\ localSB \in LocalVals
    THEN KnownDeviations[k][localSB]
    ELSE MeanDeviation(SliceMean(k), localSB)

\* SB[:i], radius[:i] and eps[:i][-1]
Slices(radius, SB, eps, i) ==
    <<Prefix(SB, i), Prefix(radius, i), Last(Prefix(eps, i))>>

integratedSB(radius, SB, eps, i) == MeanOf(Slices(radius, SB, eps, i))

\* abs(integratedSB - (adda*localSB)) with localSB = SB[i]
Deviation(radius, SB, eps, i) == DeviationOf(Slices(radius, SB, eps, i), SB[i + 1])

\* if abs(integratedSB - (adda*localSB)) < sens: false when integratedSB is
\* inf or nan
Crossing(radius, SB, eps, sens, i) ==
    FLt(Deviation(radius, SB, eps, i), FromR(sens))

\* for i in range(2, len(radius)): ... petro_r = radius[i]; break
RECURSIVE PetroScan(_, _, _, _, _)
PetroScan(radius, SB, eps, sens, i) ==
    IF i >= Len(radius) THEN R(0)
    ELSE IF Crossing(radius, SB, eps, sens, i) THEN radius[i + 1]
    ELSE PetroScan(radius, SB, eps, sens, i + 1)

petrosian_radius(radius, SB, eps, sens) == PetroScan(radius, SB, eps, sens, 2)

\* ------------------------------------------------------------------------
\* State

VARIABLES
    petroObjs,            \* the batch: sequence of petrosianObject
    tryLim,               \* number of tries
    fatalCount,
    i,                    \* index of the record being processed (0-based)
    pc,                   \* position in the PROCESSING section
    fatal,
    localEps,
    attemptIso,
    attemptPetro,
    localExtentOfDetect,
    tempRadii, tempSB, tempSBerr, tempEps, tempIsolist,
    petro_r,
    successRate,          \* the rate printed after the loop
    fatalLog,             \* the FATAL lines printed: <<ID, reason>>
    fitCalls,             \* fitter calls made by the fit loop for record i
    refitCalls,           \* fitter calls made by the petrosian loop for record i
    calcCalls,            \* petrosian_radius calls made for record i
    callEps,              \* eps argument of the latest fitter call
    callPerExtra,         \* perExtra argument of the latest fitter call
    argRadius, argSB, argEps, argSens,   \* arguments of a direct calculator call
    callPc,               \* position of the direct calculator call
    ret                   \* its return value

procVars == <<petroObjs, tryLim, fatalCount, i, pc, fatal, localEps, attemptIso,
              attemptPetro, localExtentOfDetect, tempRadii, tempSB, tempSBerr,
              tempEps, tempIsolist, petro_r, successRate, fatalLog, fitCalls,
              refitCalls, calcCalls, callEps, callPerExtra>>
calcVars == <<argRadius, argSB, argEps, argSens, callPc, ret>>
vars == <<procVars, calcVars>>

\* ------------------------------------------------------------------------
\* Direct calls of the calculator on bounded inputs

\* the PROCESSING section before it starts, or when it is not run
ProcIdle(n, lim, at) ==
    /\ petroObjs = [k \in 1..n |->
                      [ID |-> k, z |-> <<k, 10>>, pos |-> <<10 * k, 20 * k>>,
                       SB |-> <<>>, SBerr |-> <<>>, iso_radii |-> <<>>,
                       iso_eps |-> <<k, 4>>, isolist |-> "None", aper |-> k,
                       petroR |-> R(0)]]
    /\ tryLim = lim
    /\ fatalCount = 0
    /\ i = 0
    /\ pc = at
    /\ fatal = FALSE
    /\ localEps = EpsStart
    /\ attemptIso = 0
    /\ attemptPetro = 0
    /\ localExtentOfDetect = extentOfDetect
    /\ tempRadii = <<>> /\ tempSB = <<>> /\ tempSBerr = <<>> /\ tempEps = <<>>
    /\ tempIsolist = "None"
    /\ petro_r = R(0)
    /\ successRate = FZero
    /\ fatalLog = <<>>
    /\ fitCalls = 0 /\ refitCalls = 0 /\ calcCalls = 0
    /\ callEps = EpsStart
    /\ callPerExtra = extentOfDetect

CalcIdle ==
    /\ argRadius = <<>> /\ argSB = <<>> /\ argEps = <<>>
    /\ argSens = petroSens
    /\ callPc = "idle"
    /\ ret = R(0)

InitCalc ==
    /\ ProcIdle(0, 1, "idle")
    /\ \E n \in 0..MaxLen :
          /\ argRadius \in RadSeqs(n)
          /\ argSB \in [1..n -> SBVals]
          /\ argEps \in [1..n -> EpsVals]
    /\ argSens \in SensVals
    /\ callPc = "call"
    /\ ret = R(0)

CalcCall ==
    /\ callPc = "call"
    /\ ret' = petrosian_radius(argRadius, argSB, argEps, argSens)
    /\ callPc' = "returned"
    /\ UNCHANGED <<procVars, argRadius, argSB, argEps, argSens>>

NextCalc == CalcCall

SpecCalc == InitCalc /\ [][NextCalc]_vars

\* ------------------------------------------------------------------------
\* PROCESSING

Init ==
    /\ \E n \in 0..MaxRecs : \E lim \in 1..MaxTryLim : ProcIdle(n, lim, "loop")
    /\ CalcIdle

\* petroObjs[i] of the source (0-based i)
Cur == petroObjs[i + 1]

\* StartRecord without localEps = 0.01: the ellipticity of the record before
\* carries over
StartRecordNoReset ==
    /\ pc = "loop"
    /\ i < Len(petroObjs)
    /\ fatal' = FALSE
    /\ attemptIso' = 0
    /\ fitCalls' = 0 /\ refitCalls' = 0 /\ calcCalls' = 0
    /\ pc' = "fit"
    /\ UNCHANGED <<petroObjs, tryLim, fatalCount, i, localEps, attemptPetro,
                   localExtentOfDetect, tempRadii, tempSB, tempSBerr, tempEps,
                   tempIsolist, petro_r, successRate, fatalLog, callEps, callPerExtra,
                   calcVars>>

\* for i in range(len(petroObjs)): fatal = False; localEps = 0.01; attemptIso = 0
StartRecord ==
    /\ pc = "loop"
    /\ i < Len(petroObjs)
    /\ fatal' = FALSE
    /\ localEps' = EpsStart
    /\ attemptIso' = 0
    /\ fitCalls' = 0 /\ refitCalls' = 0 /\ calcCalls' = 0
    /\ pc' = "fit"
    /\ UNCHANGED <<petroObjs, tryLim, fatalCount, i, attemptPetro, localExtentOfDetect,
                   tempRadii, tempSB, tempSBerr, tempEps, tempIsolist, petro_r,
                   successRate, fatalLog, callEps, callPerExtra, calcVars>>

\* the records share the constructor's default lists: changing SB in place
\* instead of rebinding it would show in every record
AssignShared(objs, idx, new) ==
    [k \in DOMAIN objs |-> IF k = idx + 1 THEN new ELSE [objs[k] EXCEPT !.SB = new.SB]]

\* petroObjs[i].<field> = ...: the attributes of record i are rebound, no
\* other record is touched
Assign(objs, idx, new) == [objs EXCEPT ![idx + 1] = new]

\* the fit loop's acceptance test: len(tempRadii) > 0 or attemptIso == tryLim
FitAccepted(res, attempt, lim) == Len(res.sma) > 0 \/ attempt = lim

\* the fit loop's condition: while attemptIso <= tryLim
FitLoopCond(attempt, lim) == attempt <= lim

\* the fields the fit loop stores on acceptance
FitStore(obj, res) ==
    [obj EXCEPT !.iso_radii = res.sma, !.SB = res.intens, !.SBerr = res.int_err,
                !.iso_eps = res.ellipticity, !.isolist = res.isolist]

\* one pass of the fit loop: the fitter call and what follows it
FitAttempt ==
    /\ pc = "fit"
    /\ FitLoopCond(attemptIso, tryLim)
    /\ \E res \in FitResults :
          /\ tempRadii' = res.sma
          /\ tempSB' = res.intens
          /\ tempSBerr' = res.int_err
          /\ tempEps' = res.ellipticity
          /\ tempIsolist' = res.isolist
          /\ fitCalls' = fitCalls + 1
          /\ callEps' = localEps
          /\ callPerExtra' = extentOfDetect
          /\ IF FitAccepted(res, attemptIso, tryLim)
             THEN /\ petroObjs' = Assign(petroObjs, i, FitStore(Cur, res))
                  /\ pc' = "fitdone"
                  /\ UNCHANGED <<localEps, attemptIso>>
             ELSE /\ localEps' = FAdd(localEps, EpsStep)
                  /\ attemptIso' = attemptIso + 1
                  /\ UNCHANGED <<petroObjs, pc>>
    /\ UNCHANGED <<tryLim, fatalCount, i, fatal, attemptPetro, localExtentOfDetect,
                   petro_r, successRate, fatalLog, refitCalls, calcCalls, calcVars>>

\* FitFatal without the "if not fatal" guard: the petrosian part runs
FitFatalNoSkip ==
    /\ pc = "fitdone"
    /\ Len(tempRadii) = 0
    /\ fatal' = TRUE
    /\ fatalCount' = fatalCount + 1
    /\ fatalLog' = Append(fatalLog, <<petroObjs[i + 1].ID, "NO FIT">>)
    /\ attemptPetro' = 0
    /\ localExtentOfDetect' = extentOfDetect
    /\ pc' = "petro"
    /\ UNCHANGED <<petroObjs, tryLim, i, localEps, attemptIso, tempRadii, tempSB,
                   tempSBerr, tempEps, tempIsolist, petro_r, successRate, fitCalls,
                   refitCalls, calcCalls, callEps, callPerExtra, calcVars>>

\* FitFatal without fatalCount += 1
FitFatalNoCount ==
    /\ pc = "fitdone"
    /\ Len(tempRadii) = 0
    /\ fatal' = TRUE
    /\ fatalLog' = Append(fatalLog, <<petroObjs[i + 1].ID, "NO FIT">>)
    /\ i' = i + 1
    /\ pc' = "loop"
    /\ UNCHANGED <<petroObjs, tryLim, fatalCount, localEps, attemptIso, attemptPetro,
                   localExtentOfDetect, tempRadii, tempSB, tempSBerr, tempEps,
                   tempIsolist, petro_r, successRate, fitCalls, refitCalls, calcCalls,
                   callEps, callPerExtra, calcVars>>

\* if len(tempRadii) == 0: FATAL -- NO FIT DETERMINED; the petrosian part is
\* skipped and the for loop goes on
FitFatal ==
    /\ pc = "fitdone"
    /\ Len(tempRadii) = 0
    /\ fatal' = TRUE
    /\ fatalCount' = fatalCount + 1
    /\ fatalLog' = Append(fatalLog, <<Cur.ID, "NO FIT">>)
    /\ i' = i + 1
    /\ pc' = "loop"
    /\ UNCHANGED <<petroObjs, tryLim, localEps, attemptIso, attemptPetro,
                   localExtentOfDetect, tempRadii, tempSB, tempSBerr, tempEps,
                   tempIsolist, petro_r, successRate, fitCalls, refitCalls, calcCalls,
                   callEps, callPerExtra, calcVars>>

\* PetroStart without localExtentOfDetect = extentOfDetect
PetroStartNoReset ==
    /\ pc = "fitdone"
    /\ Len(tempRadii) # 0
    /\ attemptPetro' = 0
    /\ pc' = "petro"
    /\ UNCHANGED <<petroObjs, tryLim, fatalCount, i, fatal, localEps, attemptIso,
                   localExtentOfDetect, tempRadii, tempSB, tempSBerr, tempEps,
                   tempIsolist, petro_r, successRate, fatalLog, fitCalls, refitCalls,
                   calcCalls, callEps, callPerExtra, calcVars>>

\* if not fatal: attemptPetro = 0; localExtentOfDetect = extentOfDetect
PetroStart ==
    /\ pc = "fitdone"
    /\ Len(tempRadii) # 0
    /\ attemptPetro' = 0
    /\ localExtentOfDetect' = extentOfDetect
    /\ pc' = "petro"
    /\ UNCHANGED <<petroObjs, tryLim, fatalCount, i, fatal, localEps, attemptIso,
                   tempRadii, tempSB, tempSBerr, tempEps, tempIsolist, petro_r,
                   successRate, fatalLog, fitCalls, refitCalls, calcCalls, callEps,
                   callPerExtra, calcVars>>

\* the petrosian loop's condition: while attemptPetro <= tryLim
PetroLoopCond(attempt, lim) == attempt <= lim

\* the call of the calculator on the record's current fields
CurPetro(obj) == petrosian_radius(obj.iso_radii, obj.SB, obj.iso_eps, petroSens)

\* localExtentOfDetect += tryIsoIncrease
NextExtent(extent) == extent + tryIsoIncrease

\* the fields the petrosian loop stores after a new fit
RefitStore(obj, res) ==
    [obj EXCEPT !.iso_radii = res.sma, !.SB = res.intens, !.SBerr = res.int_err]

\* PetroFound without its break: the radius is stored and the loop fits again
PetroFoundNoBreak ==
    /\ pc = "petro"
    /\ PetroLoopCond(attemptPetro, tryLim)
    /\ petro_r' = CurPetro(Cur)
    /\ RLt(R(0), petro_r')
    /\ \E res \in FitResults :
          /\ tempRadii' = res.sma
          /\ tempSB' = res.intens
          /\ tempSBerr' = res.int_err
          /\ tempEps' = res.ellipticity
          /\ tempIsolist' = res.isolist
          /\ petroObjs' = Assign(petroObjs, i,
                                 RefitStore([Cur EXCEPT !.petroR = petro_r'], res))
    /\ calcCalls' = calcCalls + 1
    /\ localExtentOfDetect' = NextExtent(localExtentOfDetect)
    /\ refitCalls' = refitCalls + 1
    /\ callEps' = localEps
    /\ callPerExtra' = localExtentOfDetect'
    /\ attemptPetro' = attemptPetro + 1
    /\ UNCHANGED <<tryLim, fatalCount, i, pc, fatal, localEps, attemptIso, successRate,
                   fatalLog, fitCalls, calcVars>>

\* if petro_r > 0: petroObjs[i].petroR = petro_r; break
PetroFound ==
    /\ pc = "petro"
    /\ PetroLoopCond(attemptPetro, tryLim)
    /\ petro_r' = CurPetro(Cur)
    /\ RLt(R(0), petro_r')
    /\ petroObjs' = Assign(petroObjs, i, [Cur EXCEPT !.petroR = petro_r'])
    /\ calcCalls' = calcCalls + 1
    /\ pc' = "petrodone"
    /\ UNCHANGED <<tryLim, fatalCount, i, fatal, localEps, attemptIso, attemptPetro,
                   localExtentOfDetect, tempRadii, tempSB, tempSBerr, tempEps,
                   tempIsolist, successRate, fatalLog, fitCalls, refitCalls, callEps,
                   callPerExtra, calcVars>>

\* else: extend the range, fit again, store the new fit, attemptPetro += 1
PetroRetry ==
    /\ pc = "petro"
    /\ PetroLoopCond(attemptPetro, tryLim)
    /\ petro_r' = CurPetro(Cur)
    /\ ~RLt(R(0), petro_r')
    /\ calcCalls' = calcCalls + 1
    /\ localExtentOfDetect' = NextExtent(localExtentOfDetect)
    /\ \E res \in FitResults :
          /\ tempRadii' = res.sma
          /\ tempSB' = res.intens
          /\ tempSBerr' = res.int_err
          /\ tempEps' = res.ellipticity
          /\ tempIsolist' = res.isolist
          /\ petroObjs' = Assign(petroObjs, i, RefitStore(Cur, res))
    /\ refitCalls' = refitCalls + 1
    /\ callEps' = localEps
    /\ callPerExtra' = localExtentOfDetect'
    /\ attemptPetro' = attemptPetro + 1
    /\ UNCHANGED <<tryLim, fatalCount, i, pc, fatal, localEps, attemptIso, successRate,
                   fatalLog, fitCalls, calcVars>>

\* the petrosian loop ends because its condition fails
PetroExhausted ==
    /\ pc = "petro"
    /\ ~PetroLoopCond(attemptPetro, tryLim)
    /\ pc' = "petrodone"
    /\ UNCHANGED <<petroObjs, tryLim, fatalCount, i, fatal, localEps, attemptIso,
                   attemptPetro, localExtentOfDetect, tempRadii, tempSB, tempSBerr,
                   tempEps, tempIsolist, petro_r, successRate, fatalLog, fitCalls,
                   refitCalls, calcCalls, callEps, callPerExtra, calcVars>>

\* if petro_r == 0: FATAL -- NO PETROSIAN RADIUS DETERMINED
PetroFatal ==
    /\ pc = "petrodone"
    /\ RIsZero(petro_r)
    /\ fatal' = TRUE
    /\ fatalCount' = fatalCount + 1
    /\ fatalLog' = Append(fatalLog, <<Cur.ID, "NO PETROSIAN RADIUS">>)
    /\ i' = i + 1
    /\ pc' = "loop"
    /\ UNCHANGED <<petroObjs, tryLim, localEps, attemptIso, attemptPetro,
                   localExtentOfDetect, tempRadii, tempSB, tempSBerr, tempEps,
                   tempIsolist, petro_r, successRate, fitCalls, refitCalls, calcCalls,
                   callEps, callPerExtra, calcVars>>

\* the record has its radius: on to the next one
RecordDone ==
    /\ pc = "petrodone"
    /\ ~RIsZero(petro_r)
    /\ i' = i + 1
    /\ pc' = "loop"
    /\ UNCHANGED <<petroObjs, tryLim, fatalCount, fatal, localEps, attemptIso,
                   attemptPetro, localExtentOfDetect, tempRadii, tempSB, tempSBerr,
                   tempEps, tempIsolist, petro_r, successRate, fatalLog, fitCalls,
                   refitCalls, calcCalls, callEps, callPerExtra, calcVars>>

\* (len(petroObjs) - fatalCount)/len(petroObjs)*100: the quotient of the two
\* integers as a double, times 100
SuccessRate(n, nFatal) == FMul(FDiv(FInt(n - nFatal), FInt(n)), FInt(100))

\* print('Success Rate of Petrosian: ', ...) after the for loop
Report ==
    /\ pc = "loop"
    /\ i = Len(petroObjs)
    /\ Len(petroObjs) > 0
    /\ successRate' = SuccessRate(Len(petroObjs), fatalCount)
    /\ pc' = "done"
    /\ UNCHANGED <<petroObjs, tryLim, fatalCount, i, fatal, localEps, attemptIso,
                   attemptPetro, localExtentOfDetect, tempRadii, tempSB, tempSBerr,
                   tempEps, tempIsolist, petro_r, fatalLog, fitCalls, refitCalls,
                   calcCalls, callEps, callPerExtra, calcVars>>

\* with no record the division raises ZeroDivisionError
ReportNoRecords ==
    /\ pc = "loop"
    /\ i = Len(petroObjs)
    /\ Len(petroObjs) = 0
    /\ pc' = "error"
    /\ UNCHANGED <<petroObjs, tryLim, fatalCount, i, fatal, localEps, attemptIso,
                   attemptPetro, localExtentOfDetect, tempRadii, tempSB, tempSBerr,
                   tempEps, tempIsolist, petro_r, successRate, fatalLog, fitCalls,
                   refitCalls, calcCalls, callEps, callPerExtra, calcVars>>

Next ==
    \/ StartRecord
    \/ FitAttempt
    \/ FitFatal
    \/ PetroStart
    \/ PetroFound
    \/ PetroRetry
    \/ PetroExhausted
    \/ PetroFatal
    \/ RecordDone
    \/ Report
    \/ ReportNoRecords

Spec == Init /\ [][Next]_vars

\* the policy as written in __main__: tryLim = 50, on a batch of at most one
\* record
InitDefault ==
    /\ \E n \in 0..1 : ProcIdle(n, tryLimDefault, "loop")
    /\ CalcIdle

SpecDefault == InitDefault /\ [][Next]_vars

\* ========================================================================
\* Claims

\* the double localEps holds after k increases of a record
RECURSIVE EpsAfter(_)
EpsAfter(k) == IF k = 0 THEN EpsStart ELSE FAdd(EpsAfter(k - 1), EpsStep)

\* start + k * step, the exact value
EpsExact(k) == RAdd(initialEps, RMul(R(k), tryEpsIncrease))

\* the rounding error allowed to a sum of doubles: 2^-30
RoundingSlack == Nearest(<<1, 2^30>>)

\* the double x is start + k * step up to the rounding of the additions
EpsIs(x, k) == FLt(FAbs(FSub(x, Nearest(EpsExact(k)))), RoundingSlack)

\* the fit loop of record i - 1 has just ended FATAL: every fitter call of the
\* loop returned an empty sequence
FitExhausted ==
    /\ pc = "loop"
    /\ i > 0
    /\ fatalLog # <<>>
    /\ Last(fatalLog) = <<petroObjs[i].ID, "NO FIT">>

\* C1: when the fitter returns an empty sequence on every call, exactly
\* tryLim fitter calls are made for the record, the k-th call is given the
\* ellipticity start + (k-1)*step, and the record ends FATAL.
C1_ExactlyTryLimFitCalls ==
    /\ (pc \in {"fit", "fitdone"} /\ fitCalls >= 1) => EpsIs(callEps, fitCalls - 1)
    /\ (pc = "fitdone" /\ Len(tempRadii) = 0) => fitCalls = tryLim
    /\ FitExhausted => (fitCalls = tryLim /\ fatal)

\* C2: for every record that reaches the radius search the calculator is
\* invoked at most tryLim times and the fitter is re-invoked at most tryLim
\* times, and a record whose every calculation returned 0 is FATAL once that
\* budget is used.
C2_SearchBoundedByTryLim ==
    /\ calcCalls <= tryLim
    /\ refitCalls <= tryLim
    /\ (pc = "petro" /\ calcCalls = tryLim /\ RIsZero(petro_r)) =>
          ~PetroLoopCond(attemptPetro, tryLim)

\* C3: after each refit of the radius search, the record's radii,
\* intensities, intensity uncertainties and ellipticities all come from that
\* latest fitter result, so they have the same length.
C3_RefitReplacesWholesale ==
    (pc = "petro" /\ refitCalls >= 1) =>
        /\ Cur.iso_radii = tempRadii
        /\ Cur.SB = tempSB
        /\ Cur.SBerr = tempSBerr
        /\ Cur.iso_eps = tempEps
        /\ Len(Cur.iso_eps) = Len(Cur.iso_radii)

\* the indices the calculator examines: from 2 up to the first crossing
Examined(radius, SB, eps, sens, j) ==
    /\ 2 <= j /\ j < Len(radius)
    /\ \A k \in 2..(j - 1) : ~Crossing(radius, SB, eps, sens, k)

\* the mean enclosed intensity of index j: the integral over the elements
\* 0..j, over the area of the ellipse of radius[j] and ellipticity[j]
MeanEnclosedAt(radius, SB, eps, j) ==
    SliceMean(<<SubSeq(SB, 1, j + 1), SubSeq(radius, 1, j + 1), eps[j + 1]>>)

\* C4: at each examined index i >= 2 the value compared against
\* target_ratio * intensity[i] is the flux integral over the indices 0..i
\* divided by the area of the ellipse of radius[i] and ellipticity[i].
C4_IntegralAreaLocalSameIndex ==
    callPc = "returned" =>
        \A j \in 2..(Len(argRadius) - 1) :
            Examined(argRadius, argSB, argEps, argSens, j) =>
                integratedSB(argRadius, argSB, argEps, j)
                    = MeanEnclosedAt(argRadius, argSB, argEps, j)

\* the tolerance test of index j as the claims state it:
\* |mean_enclosed_intensity - target_ratio * local_intensity| < tolerance with
\* the mean enclosed intensity of index j
MeanTest(radius, SB, eps, sens, j) ==
    FLt(FAbs(FSub(MeanEnclosedAt(radius, SB, eps, j),
                  FMul(FromR(adda), FromR(SB[j + 1])))),
        FromR(sens))

\* the indices from 2 on at which that test holds on the arguments of the
\* direct call
ArgCrossings ==
    {j \in 2..(Len(argRadius) - 1) : MeanTest(argRadius, argSB, argEps, argSens, j)}

\* C5: the calculator returns radius[i] for the smallest index i >= 2 at
\* which |mean_enclosed_intensity - 0.2 * local_intensity| < tolerance holds
\* and 0 when there is none; so the result is 0 or one of the input radii,
\* and 0 for a sequence of fewer than 3 elements.
C5_FirstCrossingOrZero ==
    callPc = "returned" =>
        /\ ArgCrossings # {} =>
              \E j \in ArgCrossings :
                  /\ \A k \in ArgCrossings : j <= k
                  /\ ret = argRadius[j + 1]
        /\ ArgCrossings = {} => ret = R(0)
        /\ ret = R(0) \/ \E k \in 1..Len(argRadius) : ret = argRadius[k]
        /\ Len(argRadius) < 3 => ret = R(0)

\* C6: when the fit loop ends with every fitter call empty, the record is
\* marked FATAL, its petroR stays 0, the calculator is not invoked for it,
\* the fatal tally grows by exactly one and the loop goes on to the next record.
C6_FitExhaustionIsLocal ==
    [][(pc = "fitdone" /\ Len(tempRadii) = 0) =>
          /\ fatal'
          /\ fatalLog' = Append(fatalLog, <<Cur.ID, "NO FIT">>)
          /\ fatalCount' = fatalCount + 1
          /\ petroObjs'[i + 1].petroR = R(0)
          /\ calcCalls' = 0
          /\ pc' = "loop"
          /\ i' = i + 1]_vars

\* a record has ended FATAL in the fit loop and another one follows it
C6_Witness ==
    /\ FitExhausted
    /\ fitCalls = tryLim + 1
    /\ calcCalls = 0
    /\ i < Len(petroObjs)

\* C7: within one record's radius search, each fitter call is given a
\* max radius fraction exceeding that of the call before it by exactly
\* tryIsoIncrease, starting from the base fraction used by the fit loop.
C7_FractionGrowsByStep ==
    [][refitCalls' = refitCalls + 1 =>
          /\ callPerExtra' = callPerExtra + tryIsoIncrease
          /\ callPerExtra' > callPerExtra
          /\ refitCalls = 0 => callPerExtra = extentOfDetect]_vars

\* the second record's search has fitted again twice
C7_Witness ==
    /\ i = 1
    /\ refitCalls = 2
    /\ callPerExtra = extentOfDetect + 2 * tryIsoIncrease

\* the records for which a FATAL line was printed
FatalRecords == {k \in 1..Len(petroObjs) :
                    \E m \in 1..Len(fatalLog) : fatalLog[m][1] = petroObjs[k].ID}

\* the number of FATAL lines printed for record k
FatalLines(k) == Cardinality({m \in 1..Len(fatalLog) : fatalLog[m][1] = petroObjs[k].ID})

\* C8: after the loop has handled all n >= 1 records, every record has
\* contributed at most 1 to the fatal count, the count is the number of FATAL
\* records, the reported rate is (n - fatal)/n * 100, and every record was
\* processed.
C8_BatchTally ==
    pc = "done" =>
        LET n == Len(petroObjs) IN
        /\ i = n
        /\ \A k \in 1..n : FatalLines(k) <= 1
        /\ fatalCount = Cardinality(FatalRecords)
        /\ fatalCount = Len(fatalLog)
        /\ successRate = SuccessRate(n, Cardinality(FatalRecords))
        /\ \A k \in 1..n : petroObjs[k].isolist # "None"

\* three records, two of them FATAL (one in each phase), one with a radius:
\* the rate printed is 1/3 as a double times 100, 33.33333333333333
C8_Witness ==
    /\ pc = "done"
    /\ Len(petroObjs) = 3
    /\ fatalCount = 2
    /\ \E m \in 1..2 : fatalLog[m][2] = "NO FIT"
    /\ \E m \in 1..2 : fatalLog[m][2] = "NO PETROSIAN RADIUS"
    /\ successRate = FMul(FDiv(FOne, FThree), FInt(100))
    /\ successRate # Nearest(<<100, 3>>)

\* C9: in every state each record's petroR is 0 or one of the radii of its
\* current isophote sequence and the FATAL records keep petroR = 0; once a
\* record holds a non-zero petroR no step replaces its isophote sequence.
C9_RadiusFromCurrentSequence ==
    /\ [](\A k \in 1..Len(petroObjs) :
            /\ \/ petroObjs[k].petroR = R(0)
               \/ \E m \in 1..Len(petroObjs[k].iso_radii) :
                      petroObjs[k].iso_radii[m] = petroObjs[k].petroR
            /\ k \in FatalRecords => petroObjs[k].petroR = R(0))
    /\ [][\A k \in 1..Len(petroObjs) :
            petroObjs[k].petroR # R(0) => petroObjs'[k] = petroObjs[k]]_vars

\* a record got its radius from a sequence fitted by the radius search
C9_Witness ==
    /\ pc = "petrodone"
    /\ refitCalls >= 1
    /\ Cur.petroR # R(0)
    /\ \E m \in 1..Len(Cur.iso_radii) : Cur.iso_radii[m] = Cur.petroR

\* C10: a step of the processing of record i changes at most record i's
\* isophote fields (iso_radii, SB, SBerr, iso_eps, isolist) and petroR; its
\* aper, ID, pos and z, every other record, and the number and order of the
\* records stay as they are.
C10_Frame ==
    [][/\ Len(petroObjs') = Len(petroObjs)
       /\ \A k \in 1..Len(petroObjs) :
             /\ petroObjs'[k].ID = petroObjs[k].ID
             /\ petroObjs'[k].z = petroObjs[k].z
             /\ petroObjs'[k].pos = petroObjs[k].pos
             /\ petroObjs'[k].aper = petroObjs[k].aper
             /\ k # i + 1 => petroObjs'[k] = petroObjs[k]]_vars

\* the second record is in its radius search after the first got its radius
C10_Witness ==
    /\ Len(petroObjs) = 3
    /\ i = 1
    /\ pc = "petro"
    /\ refitCalls >= 1
    /\ petroObjs[1].petroR # R(0)
    /\ petroObjs[2].isolist # "None"
    /\ petroObjs[3].isolist = "None"

\* C11: for every record, whatever happened to the records before it, the
\* first fitter call is given the ellipticity 0.01 and the base fraction
\* with attemptIso = 0, the radius search starts with attemptPetro = 0 at
\* the base fraction, and every refit is given the ellipticity of the
\* record's last fit-loop call.
C11_RetryStatePerRecord ==
    [][/\ (fitCalls = 0 /\ fitCalls' = 1) =>
             /\ attemptIso = 0
             /\ callEps' = EpsStart
             /\ callPerExtra' = extentOfDetect
       /\ (pc = "fitdone" /\ pc' = "petro") =>
             /\ attemptPetro' = 0
             /\ localExtentOfDetect' = extentOfDetect
       /\ refitCalls' = refitCalls + 1 =>
             /\ refitCalls = attemptPetro
             /\ callEps' = EpsAfter(fitCalls - 1)
             /\ callEps' = callEps]_vars

\* the first record ended FATAL in the fit loop; the second one started from
\* 0.01 again, needed a second fit call and has fitted again in its search
C11_Witness ==
    /\ i = 1
    /\ fatalLog = <<<<petroObjs[1].ID, "NO FIT">>>>
    /\ pc = "petro"
    /\ fitCalls = 2
    /\ refitCalls >= 1
    /\ callEps = EpsAfter(1)

\* C12: under the default policy (base fraction 100, step 18, 50 tries) the
\* max radius fraction given to the fitter never exceeds 1000 %.
C12_FractionAtMost1000 == callPerExtra <= 1000

\* C13: under the default policy (initial ellipticity 0.01, step 0.0195,
\* 50 tries) every ellipticity given to the fitter, by the fit loop and by
\* the refits of the radius search, is below 1.0 and at most 0.99.
C13_EllipticityBelowOne ==
    /\ FLt(callEps, FOne)
    /\ ~FLt(Nearest(<<99, 100>>), callEps)

\* every one of the fit loop's calls but the last returned an empty fit, and
\* the radius search has fitted again with the ellipticity reached: 0.985 up
\* to the rounding of the 50 additions, 0.9849999999999992
C13_Witness ==
    /\ tryLim = tryLimDefault
    /\ pc = "petro"
    /\ fitCalls = tryLimDefault + 1
    /\ refitCalls >= 1
    /\ EpsIs(callEps, tryLimDefault)
    /\ callEps # Nearest(<<197, 200>>)

\* the radius search of record i - 1 has just ended FATAL
PetroSearchFatal ==
    /\ pc = "loop"
    /\ i > 0
    /\ fatalLog # <<>>
    /\ Last(fatalLog) = <<petroObjs[i].ID, "NO PETROSIAN RADIUS">>

\* C14: every isophote sequence the radius search stores on a record is
\* then examined by the calculator; when a record is marked FATAL for no
\* Petrosian radius, the calculator has been applied to the record's final
\* sequence and returned 0.
C14_FinalSequenceExamined ==
    PetroSearchFatal =>
        /\ calcCalls = refitCalls + 1
        /\ RIsZero(CurPetro(petroObjs[i]))

====
